---- MODULE Spec2Model ----
(***************************************************************************)
(* Model of src/src/hooks/useAutoSizer.ts: the useAutoSizer hook, i.e. the *)
(* width estimator getColumnWidth and the viewport change coordinator      *)
(* handleViewChange with its debounced call to gridRef.resetAfterIndices.  *)
(*                                                                         *)
(* React state is modelled as React keeps it: setViewport stores the new   *)
(* value (viewportState) and the callbacks of the current render keep the  *)
(* value they were created with (viewport) until the component renders     *)
(* again.  Time is counted in ticks; a due timer callback runs before any  *)
(* later event is handled.                                                 *)
(* A new font prop arrives with a render; the font effect stores it in     *)
(* the measurement context after that render is committed.                 *)
(***************************************************************************)
EXTENDS Integers, Sequences, FiniteSets, TLC

VARIABLES
    props,          \* IProps after defaulting (lines 36-47), fixed per instance
    cellValue,      \* the data behind getValue: row -> column -> value
    contextOk,      \* canvas.getContext("2d") returned a context (line 141)
    contextFont,    \* context.font of the measurement canvas (line 143)
    status,         \* "new" before the first render, then "ok" or "error"
    viewportState,  \* the useState cell written by setViewport (line 110)
    viewport,       \* the viewport captured by the callbacks of the last render
    isMounted,      \* isMounted.current (line 60)
    gridRef,        \* gridRef.current is set (line 7)
    timer,          \* the single timeout slot of debounceResizer (lines 61-67)
    resetCount,     \* number of gridRef.current.resetAfterIndices invocations
    lastReset,      \* arguments of the most recent invocation
    faults,         \* timer callbacks that threw (gridRef.current absent)
    lastOp,         \* history: the last handler call, render or width query
                    \* (font: the context font the query measured with;
                    \* sameAsLast: the call repeats the start indices of
                    \* the viewport the call before it delivered)
    sinceCall,      \* history: ticks since the last qualifying call, saturating
    bursts,         \* history: number of bursts of qualifying calls so far
    burstCalls,     \* history: qualifying calls awaiting the timeout (2 = many)
    lastArgs        \* history: start indices of the last qualifying call

vars == <<props, cellValue, contextOk, contextFont, status, viewportState,
          viewport, isMounted, gridRef, timer, resetCount, lastReset, faults,
          lastOp, sinceCall, bursts, burstCalls, lastArgs>>

-----------------------------------------------------------------------------
(* Bounds of the model *)

MaxRow == 1        \* viewport row indices range over 0..MaxRow
MaxResets == 1     \* the host stops scrolling after this many timer callbacks
NumRows == 2       \* rows of the data set behind getValue

-----------------------------------------------------------------------------
(* Values *)

Undefined == "<undefined>"
Null == "<null>"
None == <<>>                 \* an absent optional number / no metrics
Some(n) == <<n>>

lazy == "lazy"
full == "full"
ResizeStrategy == {lazy, full}

DataRows == 0 .. (NumRows - 1)
DataCols == {0}              \* the data set has one column; others are empty
ColumnIndices == {0, 1}      \* the grid shows two columns
Texts == {"", "a", "ab", "abcdef"}
CellValues == {Undefined, Null} \cup Texts
Fonts == {"12px Arial", "16px Arial"}

\* Ticks of the debounce delay: timeout = 300 ms, one tick = 150 ms.
timeout == 2

ZeroViewport ==
    [rowStartIndex |-> 0, rowStopIndex |-> 0,
     columnStartIndex |-> 0, columnStopIndex |-> 0]

Viewports ==
    { [rowStartIndex |-> rs, rowStopIndex |-> re,
       columnStartIndex |-> cs, columnStopIndex |-> ce] :
         <<rs, re, cs, ce>> \in
            { q \in (0..MaxRow) \X (0..MaxRow) \X ColumnIndices \X ColumnIndices :
                 q[1] <= q[2] /\ q[3] <= q[4] } }

ZeroCell == [rowIndex |-> 0, columnIndex |-> 0]
IdleTimer == [pending |-> FALSE, remaining |-> 0, args |-> ZeroCell]

-----------------------------------------------------------------------------
(* Text measurement: AutoSizerCanvas *)

\* Rendered width of a text under a font, in half pixels (the canvas of the
\* host environment; "ab" measures 11.5 px and "abcdef" 44.5 px at 12px).
TextWidth(font, text) ==
    LET w12 == CASE text = "" -> 0
                 [] text = "a" -> 16
                 [] text = "ab" -> 23
                 [] text = "abcdef" -> 89
                 [] OTHER -> 100
    IN IF font = "12px Arial" THEN w12 ELSE (w12 * 4) \div 3

\* Math.ceil of a width given in half pixels.
Ceil(halves) == (halves + 1) \div 2

\* Lines 142-144: setFont, the font of the context after the call; without
\* a context nothing is stored.
setFont(font) == IF contextOk THEN font ELSE contextFont

\* measureText = (text) => context?.measureText(text)
MutMeasureTextZero(text) ==
    Some(IF contextOk THEN TextWidth(contextFont, text) ELSE 0)
measureText(text) ==
    IF contextOk THEN Some(TextWidth(contextFont, text)) ELSE None

-----------------------------------------------------------------------------
(* Width estimator: getColumnWidth *)

getValue(rowIndex, columnIndex) ==
    IF rowIndex \in DataRows /\ columnIndex \in DataCols
    THEN cellValue[rowIndex][columnIndex]
    ELSE Undefined

\* getValue(...) ?? null: the ?? operator.
MutCoalesceNullOnly(a, b) == a
Coalesce(a, b) == IF a \in {Undefined, Null} THEN b ELSE a

\* rowStopIndex || initialVisibleRows: the || operator on numbers.
MutOrElseMax(a, b) == IF a >= b THEN a ELSE b
OrElse(a, b) == IF a # 0 THEN a ELSE b

\* Lines 81-84.
visibleRows ==
    IF props.resizeStrategy = full
    THEN (IF props.rowCount = None THEN 0 ELSE props.rowCount[1])
    ELSE OrElse(viewport.rowStopIndex, props.initialVisibleRows)

\* Line 96: Math.ceil(metrics.width) + cellSpacing.
MutCandidateFloor(metrics) == (metrics[1] \div 2) + props.cellSpacing
CandidateWidth(metrics) == Ceil(metrics[1]) + props.cellSpacing

\* Line 97: if (width > maxWidth) maxWidth = width.
MutWidenAlways(width, maxWidth) == width
Widen(width, maxWidth) == IF width > maxWidth THEN width ELSE maxWidth

\* Lines 87-101: the loop, from the row `start` on.  It returns the final
\* maxWidth together with the rows it visited and the texts it measured.
RECURSIVE WhileLoop(_, _, _, _, _)
WhileLoop(columnIndex, start, maxWidth, rows, measured) ==
    IF ~(start < visibleRows)
    THEN [width |-> maxWidth, rows |-> rows, measured |-> measured]
    ELSE LET value == Coalesce(getValue(start, columnIndex), Null)
             metrics == IF value # Null THEN measureText(value) ELSE None
             next == IF value # Null /\ metrics # None
                     THEN Widen(CandidateWidth(metrics), maxWidth)
                     ELSE maxWidth
         IN WhileLoop(columnIndex, start + 1, next, Append(rows, start),
                      IF value # Null THEN Append(measured, value) ELSE measured)

\* Lines 78-105; `from` is the initial value of `start` (line 85).
getColumnWidth(columnIndex) ==
    [from |-> viewport.rowStartIndex] @@
    WhileLoop(columnIndex, viewport.rowStartIndex, props.minColumnWidth,
              <<>>, <<>>)

-----------------------------------------------------------------------------
(* Debounce (helpers.debounce is not among the sources at hand) *)

\* debounce(cb, wait): every call cancels the pending timeout and starts a
\* new one of `wait` ticks that carries the arguments of this call.
debounce(args, wait) == [pending |-> TRUE, remaining |-> wait, args |-> args]

\* The pending timeout has run out and its callback has not run yet.
TimerDue == timer.pending /\ timer.remaining = 0

-----------------------------------------------------------------------------
(* Viewport change coordinator: handleViewChange *)

\* Line 110: setViewport(cells), the next value of the state cell.
MutSetViewportAfterCheck(cells) ==
    IF \/ props.resizeStrategy = full
       \/ ~props.resizeOnScroll
       \/ /\ cells.rowStartIndex = viewport.rowStartIndex
          /\ cells.columnStartIndex = viewport.columnStartIndex
    THEN viewportState ELSE cells
setViewport(cells) == cells

\* Lines 113-119: the conditions under which the handler returns early.
MutSuppressedWholeViewport(cells) ==
    \/ props.resizeStrategy = full
    \/ ~props.resizeOnScroll
    \/ cells = viewport
MutSuppressedNoScrollFlag(cells) ==
    \/ props.resizeStrategy = full
    \/ /\ cells.rowStartIndex = viewport.rowStartIndex
       /\ cells.columnStartIndex = viewport.columnStartIndex
MutSuppressedNoStrategy(cells) ==
    \/ ~props.resizeOnScroll
    \/ /\ cells.rowStartIndex = viewport.rowStartIndex
       /\ cells.columnStartIndex = viewport.columnStartIndex
Suppressed(cells) ==
    \/ props.resizeStrategy = full
    \/ ~props.resizeOnScroll
    \/ /\ cells.rowStartIndex = viewport.rowStartIndex
       /\ cells.columnStartIndex = viewport.columnStartIndex

\* Lines 120-122: the guards in front of the debounced call.
MutSchedulesNoHandle(cells) == ~Suppressed(cells) /\ isMounted
MutSchedulesUnmounted(cells) == ~Suppressed(cells) /\ gridRef
MutSchedulesWhenIdle(cells) ==
    ~Suppressed(cells) /\ gridRef /\ isMounted /\ ~timer.pending
Schedules(cells) == ~Suppressed(cells) /\ gridRef /\ isMounted

\* Lines 123-126: the arguments of the debounced call.
MutCallArgsCached(cells) ==
    [rowIndex |-> viewport.rowStartIndex,
     columnIndex |-> viewport.columnStartIndex]
MutCallArgsStop(cells) ==
    [rowIndex |-> cells.rowStopIndex, columnIndex |-> cells.columnStopIndex]
CallArgs(cells) ==
    [rowIndex |-> cells.rowStartIndex, columnIndex |-> cells.columnStartIndex]

-----------------------------------------------------------------------------
(* History: what the claims call a qualifying call, and the last operation *)

StartCell(v) == [rowIndex |-> v.rowStartIndex, columnIndex |-> v.columnStartIndex]

SameStart(a, b) ==
    /\ a.rowStartIndex = b.rowStartIndex
    /\ a.columnStartIndex = b.columnStartIndex

Qualifying(cells) ==
    /\ props.resizeStrategy = lazy
    /\ props.resizeOnScroll
    /\ ~SameStart(cells, viewport)
    /\ gridRef
    /\ isMounted

NoOp(op) ==
    [op |-> op, scheduled |-> FALSE, cells |-> ZeroViewport, calls |-> 0,
     columnIndex |-> 0, result |-> None, font |-> "", sameAsLast |-> FALSE]

-----------------------------------------------------------------------------
(* Initial states *)

DefaultProps ==
    [initialVisibleRows |-> 2, minColumnWidth |-> 60, cellSpacing |-> 10,
     resizeStrategy |-> lazy, rowCount |-> None, resizeOnScroll |-> TRUE,
     font |-> "12px Arial"]

SampleData ==
    [r \in DataRows |-> [c \in DataCols |-> IF r = 0 THEN "abcdef" ELSE Undefined]]

InitHistory ==
    /\ lastOp = NoOp("")
    /\ sinceCall = timeout
    /\ bursts = 0
    /\ burstCalls = 0
    /\ lastArgs = ZeroCell

InitEffects ==
    /\ gridRef = FALSE
    /\ timer = IdleTimer
    /\ resetCount = 0
    /\ lastReset = ZeroCell
    /\ faults = 0

\* The hook is about to be rendered for the first time, with some props.
Init ==
    /\ \E s \in ResizeStrategy, rc \in {None, Some(NumRows)}, ros \in BOOLEAN :
          /\ s = lazy => rc = None
          /\ props = [DefaultProps EXCEPT !.resizeStrategy = s, !.rowCount = rc,
                                          !.resizeOnScroll = ros]
    /\ cellValue = SampleData
    /\ contextOk = TRUE
    /\ contextFont = props.font
    /\ status = "new"
    /\ viewportState = ZeroViewport
    /\ viewport = ZeroViewport
    /\ isMounted = FALSE
    /\ InitEffects
    /\ InitHistory

\* Every configuration the hook can be given, before its first render.
InitConstruct ==
    /\ \E s \in ResizeStrategy, rc \in {None} \cup {Some(n) : n \in 0..NumRows},
          ros \in BOOLEAN, ivr \in {0, 2}, mcw \in {5, 50}, cs \in {0, 10},
          f \in Fonts :
          props = [initialVisibleRows |-> ivr, minColumnWidth |-> mcw,
                   cellSpacing |-> cs, resizeStrategy |-> s, rowCount |-> rc,
                   resizeOnScroll |-> ros, font |-> f]
    /\ cellValue = SampleData
    /\ contextOk = TRUE
    /\ contextFont = props.font
    /\ status = "new"
    /\ viewportState = ZeroViewport
    /\ viewport = ZeroViewport
    /\ isMounted = FALSE
    /\ InitEffects
    /\ InitHistory

\* The inputs of the width estimator: a rendered hook with any props, data,
\* measurement context and cached viewport.
InitWidth ==
    /\ \E s \in ResizeStrategy, rc \in {None} \cup {Some(n) : n \in 0..NumRows},
          ivr \in {0, 2}, mcw \in {5, 50}, cs \in {0, 10}, f \in Fonts :
          /\ (s = full) = (rc # None)
          /\ props = [DefaultProps EXCEPT !.resizeStrategy = s, !.rowCount = rc,
                         !.initialVisibleRows = ivr, !.minColumnWidth = mcw,
                         !.cellSpacing = cs, !.font = f]
    /\ cellValue \in [DataRows -> [DataCols -> CellValues]]
    /\ contextOk \in BOOLEAN
    /\ contextFont = props.font
    /\ status = "ok"
    /\ viewportState \in {v \in Viewports : v.columnStopIndex = 0}
    /\ viewport = viewportState
    /\ isMounted = TRUE
    /\ InitEffects
    /\ InitHistory

\* The states in which the host changes the font: a rendered hook, mounted
\* or not, with or without the host handle, the re-layout call pending or
\* not, and no viewport update waiting for its render.
InitFont ==
    /\ \E f \in Fonts : props = [DefaultProps EXCEPT !.font = f]
    /\ cellValue = SampleData
    /\ contextOk \in BOOLEAN
    /\ contextFont = props.font
    /\ status = "ok"
    /\ viewportState \in Viewports
    /\ viewport = viewportState
    /\ isMounted \in BOOLEAN
    /\ gridRef \in BOOLEAN
    /\ resetCount = 0
    /\ lastReset = ZeroCell
    /\ faults = 0
    /\ lastOp = NoOp("")
    /\ \/ /\ timer = IdleTimer
          /\ sinceCall = timeout
          /\ bursts = 0
          /\ burstCalls = 0
          /\ lastArgs = ZeroCell
       \/ /\ isMounted
          /\ \E left \in 1..timeout, calls \in 1..2 :
                /\ timer = [debounce(StartCell(viewportState), timeout)
                               EXCEPT !.remaining = left]
                /\ sinceCall = timeout - left
                /\ burstCalls = calls
          /\ bursts = 1
          /\ lastArgs = StartCell(viewportState)

-----------------------------------------------------------------------------
(* Actions *)

\* Lines 48-51: the condition handed to invariant().
MutInvariantAnyStrategy == props.rowCount # None
InvariantCondition == ~(props.resizeStrategy = full /\ props.rowCount = None)

\* The hook is rendered and no timer callback is waiting to run.
Running == status = "ok" /\ ~TimerDue

\* Lines 48-67: the first render; the invariant() call throws or passes.
useAutoSizer ==
    /\ status = "new"
    /\ status' = IF InvariantCondition THEN "ok" ELSE "error"
    /\ lastOp' = NoOp("")
    /\ UNCHANGED <<props, cellValue, contextOk, contextFont, viewportState,
                   viewport, isMounted, gridRef, timer, resetCount, lastReset,
                   faults, sinceCall, bursts, burstCalls, lastArgs>>

\* Lines 69-71: the mount effect.
MountEffect ==
    /\ Running
    /\ ~isMounted
    /\ isMounted' = TRUE
    /\ lastOp' = NoOp("")
    /\ UNCHANGED <<props, cellValue, contextOk, contextFont, status,
                   viewportState, viewport, gridRef, timer, resetCount,
                   lastReset, faults, sinceCall, bursts, burstCalls, lastArgs>>

\* The host grid attaches or detaches its handle in gridRef.current.
SetGridRef ==
    /\ Running
    /\ gridRef' = ~gridRef
    /\ lastOp' = NoOp("")
    /\ UNCHANGED <<props, cellValue, contextOk, contextFont, status,
                   viewportState, viewport, isMounted, timer, resetCount,
                   lastReset, faults, sinceCall, bursts, burstCalls, lastArgs>>

\* Lines 107-130: onViewChange(cells).
handleViewChange(cells) ==
    /\ Running
    /\ resetCount + faults < MaxResets
    /\ viewportState' = setViewport(cells)
    /\ timer' = IF Schedules(cells) THEN debounce(CallArgs(cells), timeout)
                ELSE timer
    /\ lastOp' = [NoOp("onViewChange") EXCEPT !.cells = cells,
                        !.scheduled = Schedules(cells),
                        !.sameAsLast = SameStart(cells, viewportState)]
    /\ IF Qualifying(cells)
       THEN /\ sinceCall' = 0
            /\ bursts' = IF sinceCall < timeout THEN bursts ELSE bursts + 1
            /\ burstCalls' = IF sinceCall < timeout THEN 2 ELSE 1
            /\ lastArgs' = StartCell(cells)
       ELSE UNCHANGED <<sinceCall, bursts, burstCalls, lastArgs>>
    /\ UNCHANGED <<props, cellValue, contextOk, contextFont, status, viewport,
                   isMounted, gridRef, resetCount, lastReset, faults>>

\* The render that setViewport caused: the callbacks are created again over
\* the current state (lines 54, 78-130).
Render ==
    /\ Running
    /\ viewport # viewportState
    /\ viewport' = viewportState
    /\ lastOp' = NoOp("render")
    /\ UNCHANGED <<props, cellValue, contextOk, contextFont, status,
                   viewportState, isMounted, gridRef, timer, resetCount,
                   lastReset, faults, sinceCall, bursts, burstCalls, lastArgs>>

\* One tick of time passes.
Tick ==
    /\ Running
    /\ timer.pending \/ sinceCall < timeout
    /\ timer' = IF timer.pending
                THEN [timer EXCEPT !.remaining = timer.remaining - 1]
                ELSE timer
    /\ sinceCall' = IF sinceCall < timeout THEN sinceCall + 1 ELSE sinceCall
    /\ lastOp' = NoOp("")
    /\ UNCHANGED <<props, cellValue, contextOk, contextFont, status,
                   viewportState, viewport, isMounted, gridRef, resetCount,
                   lastReset, faults, bursts, burstCalls, lastArgs>>

\* Lines 63-64: the timeout of debounceResizer runs out and its callback
\* calls gridRef.current.resetAfterIndices, which throws without a handle.
debounceResizer ==
    /\ status = "ok"
    /\ TimerDue
    /\ timer' = IdleTimer
    /\ IF gridRef
       THEN /\ resetCount' = resetCount + 1
            /\ lastReset' = timer.args
            /\ UNCHANGED faults
       ELSE /\ faults' = faults + 1
            /\ UNCHANGED <<resetCount, lastReset>>
    /\ lastOp' = [NoOp("timeout") EXCEPT !.calls = burstCalls]
    /\ burstCalls' = 0
    /\ UNCHANGED <<props, cellValue, contextOk, contextFont, status,
                   viewportState, viewport, isMounted, gridRef, sinceCall,
                   bursts, lastArgs>>

\* The host asks for the width of a column (lines 78-105).
columnWidth(columnIndex) ==
    /\ Running
    /\ lastOp' = [NoOp("columnWidth") EXCEPT !.columnIndex = columnIndex,
                     !.result = Some(getColumnWidth(columnIndex)),
                     !.font = contextFont]
    /\ UNCHANGED <<props, cellValue, contextOk, contextFont, status,
                   viewportState, viewport, isMounted, gridRef, timer,
                   resetCount, lastReset, faults, sinceCall, bursts,
                   burstCalls, lastArgs>>

\* The host renders the hook again with another font prop (line 46); the
\* font effect of the previous render has run by then.
RenderFont(font) ==
    /\ Running
    /\ font # props.font
    /\ contextOk => contextFont = props.font
    /\ props' = [props EXCEPT !.font = font]
    /\ viewport' = viewportState
    /\ lastOp' = NoOp("font")
    /\ UNCHANGED <<cellValue, contextOk, contextFont, status, viewportState,
                   isMounted, gridRef, timer, resetCount, lastReset, faults,
                   sinceCall, bursts, burstCalls, lastArgs>>

\* Lines 73-76: the effect of a render whose font differs from that of the
\* render before, run after the render is committed.
FontEffect ==
    /\ Running
    /\ contextOk
    /\ contextFont # props.font
    /\ contextFont' = setFont(props.font)
    /\ lastOp' = NoOp("setFont")
    /\ UNCHANGED <<props, cellValue, contextOk, status, viewportState,
                   viewport, isMounted, gridRef, timer, resetCount, lastReset,
                   faults, sinceCall, bursts, burstCalls, lastArgs>>

Next ==
    \/ useAutoSizer
    \/ MountEffect
    \/ SetGridRef
    \/ \E cells \in Viewports : handleViewChange(cells)
    \/ Render
    \/ Tick
    \/ debounceResizer

NextConstruct == useAutoSizer \/ MountEffect

NextWidth == \E columnIndex \in ColumnIndices : columnWidth(columnIndex)

NextFont ==
    \/ \E font \in Fonts : RenderFont(font)
    \/ FontEffect
    \/ \E columnIndex \in ColumnIndices : columnWidth(columnIndex)
    \/ Tick
    \/ debounceResizer

\* The coordinator: construction, mounting, viewport changes, time.
Spec == Init /\ [][Next]_vars

\* Construction over every configuration.
SpecConstruct == InitConstruct /\ [][NextConstruct]_vars

\* The estimator: width queries over all inputs.
SpecWidth == InitWidth /\ [][NextWidth]_vars

\* Font changes, width queries and time.
SpecFont == InitFont /\ [][NextFont]_vars

-----------------------------------------------------------------------------
(* Properties of the coordinator, checked under Spec *)

\* C1: qualifying calls that follow each other within the debounce delay,
\* with the host handle present, lead to exactly one resetAfterIndices
\* invocation per burst, and it carries the start indices of the last call.
C1_DebounceCollapses ==
    faults = 0 =>
        /\ bursts = resetCount + (IF timer.pending THEN 1 ELSE 0)
        /\ timer.pending => timer.args = lastArgs
        /\ (~timer.pending /\ resetCount > 0) => lastReset = lastArgs

C1_Witness ==
    /\ lastOp.op = "timeout"
    /\ lastOp.calls = 2
    /\ faults = 0
    /\ resetCount = 1
    /\ lastReset = lastArgs
    /\ lastReset # ZeroCell

\* C2: a call whose start indices equal those of the cached viewport does
\* not make the debounced call, whatever its stop indices.
C2_SameStartNeverSchedules ==
    (lastOp.op = "onViewChange" /\ SameStart(lastOp.cells, viewport))
        => ~lastOp.scheduled

C2_Witness ==
    /\ lastOp.op = "onViewChange"
    /\ SameStart(lastOp.cells, viewport)
    /\ lastOp.cells.rowStopIndex # viewport.rowStopIndex
    /\ lastOp.cells.columnStopIndex # viewport.columnStopIndex
    /\ props.resizeStrategy = lazy
    /\ props.resizeOnScroll
    /\ isMounted
    /\ gridRef
    /\ ~lastOp.scheduled

\* C3: under the full strategy no call is ever scheduled and no timer
\* callback ever runs, whatever resizeOnScroll and the mounted flag are.
C3_FullNeverSchedules ==
    props.resizeStrategy = full =>
        /\ ~lastOp.scheduled
        /\ ~timer.pending
        /\ resetCount = 0
        /\ faults = 0

C3_Witness ==
    /\ props.resizeStrategy = full
    /\ props.resizeOnScroll
    /\ isMounted
    /\ gridRef
    /\ lastOp.op = "onViewChange"
    /\ ~SameStart(lastOp.cells, viewport)

\* C4: before the mount effect has run nothing is scheduled; once it has, a
\* qualifying call starts the timer with its start indices.
C4_MountedGate ==
    /\ ~isMounted =>
          /\ ~lastOp.scheduled
          /\ ~timer.pending
          /\ resetCount = 0
          /\ faults = 0
    /\ ( /\ lastOp.op = "onViewChange"
         /\ isMounted
         /\ gridRef
         /\ props.resizeStrategy = lazy
         /\ props.resizeOnScroll
         /\ ~SameStart(lastOp.cells, viewport) )
       => /\ lastOp.scheduled
          /\ timer = [pending |-> TRUE, remaining |-> timeout,
                      args |-> StartCell(lastOp.cells)]

C4_Witness ==
    /\ lastOp.op = "onViewChange"
    /\ isMounted
    /\ lastOp.scheduled
    /\ timer.pending
    /\ timer.args = StartCell(lastOp.cells)

\* C10 as amended: every call stores its viewport in the state cell, also
\* when the trigger is suppressed, and from the render that follows on the
\* estimator samples from the row start of that viewport.
C10_StateReplacedThenRendered ==
    /\ lastOp.op = "onViewChange" => viewportState = lastOp.cells
    /\ lastOp.op = "render" =>
          /\ viewport = viewportState
          /\ \A c \in ColumnIndices :
                getColumnWidth(c).from = viewportState.rowStartIndex

C10_Witness ==
    /\ lastOp.op = "render"
    /\ props.resizeStrategy = full
    /\ viewport.rowStartIndex = 1
    /\ getColumnWidth(0).from = 1

\* C10 as stated: after every call the cached viewport is the viewport of
\* that call, so a columnWidth query samples from its rowStartIndex.
C10_Original ==
    status = "ok" =>
        \A c \in ColumnIndices :
            getColumnWidth(c).from = viewportState.rowStartIndex

-----------------------------------------------------------------------------
(* Construction, checked under SpecConstruct *)

\* C9: the first render fails exactly when resizeStrategy is full and
\* rowCount is undefined.
C9_ConstructionFailsIff ==
    status # "new" =>
        ((status = "error") <=>
            (props.resizeStrategy = full /\ props.rowCount = None))

C9_Witness ==
    /\ status = "error"
    /\ props.resizeStrategy = full
    /\ props.rowCount = None

-----------------------------------------------------------------------------
(* Properties of the estimator, checked under SpecWidth *)

Queried == lastOp.op = "columnWidth"
Result == lastOp.result[1]

MaxOf(S) == CHOOSE m \in S : \A x \in S : x <= m
Elems(seq) == {seq[i] : i \in 1..Len(seq)}
Interval(a, b) == [i \in 1..(IF b > a THEN b - a ELSE 0) |-> a + i - 1]
Nullish(v) == v \in {Undefined, Null}

\* The candidate widths of the sampled rows whose value is non-null and
\* measurable.
Candidates ==
    { Ceil(TextWidth(contextFont, getValue(r, lastOp.columnIndex)))
         + props.cellSpacing :
      r \in { q \in Elems(Result.rows) :
                 ~Nullish(getValue(q, lastOp.columnIndex)) /\ contextOk } }

\* C5: columnWidth never returns less than minColumnWidth.
C5_AtLeastMinimum == Queried => Result.width >= props.minColumnWidth

C5_Witness ==
    /\ Queried
    /\ contextOk
    /\ Result.measured # <<>>
    /\ Result.width = props.minColumnWidth
    /\ \E w \in Candidates : w < props.minColumnWidth

\* C6: columnWidth is the maximum of minColumnWidth and the candidate
\* widths ceil(measured width) + cellSpacing of the sampled rows.
C6_MaximumOfCandidates ==
    Queried => Result.width = MaxOf({props.minColumnWidth} \cup Candidates)

C6_Witness ==
    /\ Queried
    /\ props.cellSpacing = 10
    /\ props.minColumnWidth = 50
    /\ Result.measured = <<"ab", "abcdef">>
    /\ contextFont = "12px Arial"
    /\ Result.width = 55

BoundAsCoded ==
    IF props.resizeStrategy = full THEN props.rowCount[1]
    ELSE IF viewport.rowStopIndex # 0 THEN viewport.rowStopIndex
         ELSE props.initialVisibleRows

BoundAsStated ==
    IF props.resizeStrategy = full THEN props.rowCount[1]
    ELSE MaxOf({viewport.rowStopIndex, props.initialVisibleRows})

\* C7 as amended: the sampled rows are rowStartIndex <= r < bound, where the
\* bound is rowCount under full and, under lazy, rowStopIndex when that is
\* not 0 and initialVisibleRows when it is 0.
C7_SampledRows ==
    Queried => Result.rows = Interval(viewport.rowStartIndex, BoundAsCoded)

C7_Witness ==
    /\ Queried
    /\ props.resizeStrategy = lazy
    /\ 0 < viewport.rowStopIndex
    /\ viewport.rowStopIndex < props.initialVisibleRows
    /\ Result.rows = <<0>>

\* C7 as stated: under lazy the bound is max(rowStopIndex,
\* initialVisibleRows).
C7_Original ==
    Queried => Result.rows = Interval(viewport.rowStartIndex, BoundAsStated)

\* C8: when every sampled value is null or undefined, columnWidth returns
\* minColumnWidth and measures nothing.
C8_AllNullish ==
    ( /\ Queried
      /\ \A r \in Elems(Result.rows) : Nullish(getValue(r, lastOp.columnIndex)) )
    => /\ Result.width = props.minColumnWidth
       /\ Result.measured = <<>>

C8_Witness ==
    /\ Queried
    /\ contextOk
    /\ lastOp.columnIndex = 0
    /\ Result.rows = <<0, 1>>
    /\ getValue(0, 0) = Undefined
    /\ getValue(1, 0) = Null
    /\ Result.width = props.minColumnWidth
    /\ Result.measured = <<>>

-----------------------------------------------------------------------------
(* Further properties of the coordinator, checked under Spec *)

\* C11: resetAfterIndices is never invoked without a host handle: a call
\* made while gridRef.current is absent schedules nothing, and a timer
\* callback that runs after the handle has gone is dropped without a fault.
C11_AbsentHandleNeverFaults ==
    /\ (lastOp.op = "onViewChange" /\ ~gridRef) => ~lastOp.scheduled
    /\ lastOp.op = "timeout" => (gridRef /\ resetCount > 0)
    /\ faults = 0

-----------------------------------------------------------------------------
(* Properties of the font change, checked under SpecFont *)

\* C12: a change of the font prop leaves the cached viewport, the mounted
\* flag and a pending debounced call as they were, and every measurement
\* made after the change uses the new font.
C12_FontChange ==
    [][ /\ props'.font # props.font =>
              /\ viewportState' = viewportState
              /\ viewport' = viewport
              /\ isMounted' = isMounted
              /\ timer' = timer
        /\ ( /\ lastOp'.op = "columnWidth"
             /\ lastOp'.result[1].measured # <<>>
             /\ contextOk )
           => lastOp'.font = props.font ]_vars

-----------------------------------------------------------------------------
(* Further properties of the coordinator, continued *)

\* C13: the suppression check compares the start indices of the new viewport
\* with those of the viewport delivered by the call immediately before (the
\* all-zero viewport if there was none), also when no render lies between
\* the two calls: under lazy with resizeOnScroll, mounted and with the host
\* handle, a call is scheduled exactly if it does not repeat them.
C13_ComparesWithPrecedingCall ==
    ( /\ lastOp.op = "onViewChange"
      /\ props.resizeStrategy = lazy
      /\ props.resizeOnScroll
      /\ isMounted
      /\ gridRef )
    => (lastOp.scheduled <=> ~lastOp.sameAsLast)

\* C14: no resetAfterIndices invocation comes earlier than the debounce
\* delay after the last call that was not suppressed: every such call
\* starts the delay afresh, and every burst has exactly one timeout, pending
\* or run.
C14_QuietPeriod ==
    /\ lastOp.op = "timeout" => sinceCall >= timeout
    /\ timer.pending => timer.remaining = timeout - sinceCall
    /\ bursts = resetCount + faults + (IF timer.pending THEN 1 ELSE 0)

C14_Witness ==
    /\ lastOp.op = "timeout"
    /\ lastOp.calls = 2
    /\ sinceCall = timeout
    /\ bursts = 1
    /\ gridRef
    /\ resetCount = 1

\* C15: every resetAfterIndices invocation carries the start indices of the
\* viewport of the last call that was not suppressed, never its stop
\* indices and never the indices of a suppressed or an earlier call.
C15_InvocationArguments ==
    (lastOp.op = "timeout" /\ gridRef) =>
        /\ resetCount > 0
        /\ lastReset = lastArgs
        /\ lastOp.calls >= 1

\* The invocation carries the start indices of the first call although a
\* suppressed call (made without the host handle) delivered another
\* viewport after it.
C15_Witness ==
    /\ lastOp.op = "timeout"
    /\ gridRef
    /\ resetCount = 1
    /\ lastOp.calls = 1
    /\ lastReset = lastArgs
    /\ lastReset # StartCell(viewportState)
    /\ lastReset # [rowIndex |-> viewportState.rowStopIndex,
                    columnIndex |-> viewportState.columnStopIndex]

-----------------------------------------------------------------------------
(* Further properties of the estimator, checked under SpecWidth *)

\* C16: under the full strategy the estimate covers the whole data set:
\* whatever the cached viewport, columnWidth is at least the candidate
\* width of every row 0 .. rowCount-1 whose value is not null, so it does
\* not depend on viewport.rowStartIndex.
C16_FullCoversDataSet ==
    (Queried /\ props.resizeStrategy = full /\ contextOk) =>
        \A r \in 0 .. (props.rowCount[1] - 1) :
            ~Nullish(getValue(r, lastOp.columnIndex)) =>
                Result.width >=
                    Ceil(TextWidth(contextFont, getValue(r, lastOp.columnIndex)))
                        + props.cellSpacing

-----------------------------------------------------------------------------
(* Further properties of the coordinator, checked under Spec *)

\* C17: with resizeOnScroll = false no call is ever scheduled and no timer
\* callback ever runs, under either strategy and whether or not the start
\* indices change.
C17_NoResizeOnScroll ==
    ~props.resizeOnScroll =>
        /\ ~lastOp.scheduled
        /\ ~timer.pending
        /\ resetCount = 0
        /\ faults = 0

C17_Witness ==
    /\ ~props.resizeOnScroll
    /\ props.resizeStrategy = lazy
    /\ isMounted
    /\ gridRef
    /\ lastOp.op = "onViewChange"
    /\ lastOp.cells.rowStartIndex # viewport.rowStartIndex
    /\ lastOp.cells.columnStartIndex # viewport.columnStartIndex
    /\ ~lastOp.scheduled
    /\ ~timer.pending

-----------------------------------------------------------------------------
(* Further properties of the estimator, continued *)

\* C18: without a measurement context (measureText yields no metrics)
\* columnWidth treats every sampled value like a null value: the loop still
\* visits every row up to the bound, ends without a fault and returns
\* exactly minColumnWidth.
C18_NoMetrics ==
    (Queried /\ ~contextOk) =>
        /\ lastOp.result # None
        /\ Result.rows = Interval(viewport.rowStartIndex, BoundAsCoded)
        /\ Result.width = props.minColumnWidth

C18_Witness ==
    /\ Queried
    /\ ~contextOk
    /\ lastOp.columnIndex = 0
    /\ getValue(0, 0) = "abcdef"
    /\ getValue(1, 0) = Null
    /\ Result.rows = <<0, 1>>
    /\ Result.measured = <<"abcdef">>
    /\ Result.width = props.minColumnWidth
    /\ props.minColumnWidth = 5

-----------------------------------------------------------------------------
(* Further properties of the coordinator, continued *)

\* C19: a suppressed call (start indices unchanged, hook not mounted, host
\* handle absent, full strategy or resizeOnScroll = false) leaves a pending
\* debounced call as it was: it neither cancels it, nor starts its delay
\* afresh, nor replaces its arguments.
C19_SuppressedKeepsTimer ==
    [][ (lastOp'.op = "onViewChange" /\ ~Qualifying(lastOp'.cells))
            => timer' = timer ]_vars

\* A suppressed call has just been made while a timeout, partly run down
\* and carrying other start indices, is pending.
C19_Witness ==
    /\ lastOp.op = "onViewChange"
    /\ ~lastOp.scheduled
    /\ isMounted
    /\ ~gridRef
    /\ timer.pending
    /\ timer.remaining < timeout
    /\ timer.args # StartCell(lastOp.cells)

====
